---- MODULE Spec2Model ----
(***************************************************************************)
(* ImageFeatureExtractor (src/imagefeatureextractor.cpp): the request      *)
(* pipeline processNewImage (decode, size validation, SIFT detection, hit   *)
(* file, one 4-nearest-neighbour query per keypoint, 14-byte hit records)   *)
(* together with init() and stop().                                         *)
(*                                                                          *)
(* Numbers that are floats in the code are dyadic rationals <<num, den>>    *)
(* here (den a power of two), and the float division of lines 111-113 is    *)
(* carried out in IEEE-754 single precision (24-bit significand, round to   *)
(* nearest even) by long division.  Files are sequences of bytes; fields    *)
(* are laid out in the byte order of a little-endian build.                 *)
(***************************************************************************)
EXTENDS Integers, Sequences, FiniteSets, TLC

VARIABLES
    vocFile,    \* the vocabulary file on disk: [openable, records]
    module,     \* "constructed" | "ready" | "exited" | "stopped"
    words,      \* rows of *words (-1: not allocated)
    files,      \* the hit directory: for each path, NoFile or the file's bytes
    pc,         \* per request: position in processNewImage
    imageId,    \* per request: i_imageId
    img,        \* per request: the decoded Mat [data, w, h, n]
    keypoints,  \* per request: what SIFT returned
    i,          \* per request: number of keypoints the outer loop has entered
    j,          \* per request: number of writeHit calls of the current keypoint
    fixed,      \* per request: the locals angle, x, y of the current keypoint
    indices,    \* per request: the vector indices after knnSearch
    ofs,        \* per request: the ofstream [open, good]
    replies,    \* per request: the codes passed to p_client->sendReply
    ret,        \* per request: "true" or "false" as returned ("none" while running)
    log,        \* per request: the operations performed, in order
    queries,    \* per request: the knnSearch calls [desc, answer, indices]
    encIn,      \* encoding harness: the value under conversion
    encOut,     \* encoding harness: the 16-bit result (-1: not yet converted)
    vocIn,      \* reading harness: a small vocabulary file [openable, recs, delim, tail]
    reader      \* reading harness: readVisualWords [pc, pos, good, rows, ret]

vars == <<vocFile, module, words, files, pc, imageId, img, keypoints, i, j,
          fixed, indices, ofs, replies, ret, log, queries, encIn, encOut,
          vocIn, reader>>

----------------------------------------------------------------------------
(* Program constants *)

MaxImageSize == 1000
MinImageSize == 200
Knn == 4
VocabularySize == 1000000
FullTurn == 360
Fixed16One == 65536
RowFloats == 128
FloatSize == 4
Newline == 10

(* dataMessages.h reply codes, by name *)
OK == "OK"
IMAGE_NOT_DECODED == "IMAGE_NOT_DECODED"
IMAGE_SIZE_TOO_BIG == "IMAGE_SIZE_TOO_BIG"
IMAGE_SIZE_TOO_SMALL == "IMAGE_SIZE_TOO_SMALL"
ERROR_GENERIC == "ERROR_GENERIC"

(* Bounds of the model *)
MaxKeypoints == 2
MaxRecords == 2

----------------------------------------------------------------------------
(* Arithmetic *)

RECURSIVE Pow2(_)
Pow2(n) == IF n = 0 THEN 1 ELSE 2 * Pow2(n - 1)

(* Number of doublings that bring n into [d, 2d), for 0 < n < d. *)
RECURSIVE Shift(_, _)
Shift(n, d) == IF n >= d THEN 0 ELSE 1 + Shift(2 * n, d)

(* Long division: bits more quotient bits of r/d appended to m. *)
RECURSIVE DivBits(_, _, _, _)
DivBits(m, r, d, bits) ==
    IF bits = 0 THEN <<m, r>>
    ELSE IF 2 * r >= d THEN DivBits(2 * m + 1, 2 * r - d, d, bits - 1)
                       ELSE DivBits(2 * m, 2 * r, d, bits - 1)

(* The float quotient n/d for 0 <= n < d: <<m, e>> stands for m * 2^-e,    *)
(* m the 24-bit significand rounded to nearest, ties to even.               *)
FloatDiv(n, d) ==
    IF n = 0 THEN <<0, 0>>
    ELSE LET s  == Shift(n, d)
             qr == DivBits(1, n * Pow2(s) - d, d, 23)
             m  == qr[1]
             r  == qr[2]
             up == (2 * r > d) \/ (2 * r = d /\ m % 2 = 1)
         IN  <<IF up THEN m + 1 ELSE m, s + 23>>

(* The same, converting to the nearest integer and wrapping at 16 bits. *)
Fixed16Round(num, den, d) ==
    LET q == FloatDiv(num, den * d)
        t == Pow2(q[2] - 16)
    IN  IF q[1] = 0 THEN 0 ELSE ((2 * q[1] + t) \div (2 * t)) % Fixed16One

(* The same with the scale 1 << 15. *)
Fixed16Shift15(num, den, d) ==
    LET q == FloatDiv(num, den * d)
    IN  IF q[1] = 0 THEN 0 ELSE q[1] \div Pow2(q[2] - 15)

(* u_int16_t v = a / d * (1 << 16) for the float a = num/den and 0 <= a < d:*)
(* float division, exact scaling by 65536, conversion by truncation.        *)
Fixed16(num, den, d) ==
    LET q == FloatDiv(num, den * d)
    IN  IF q[1] = 0 THEN 0 ELSE q[1] \div Pow2(q[2] - 16)

(* n bytes of the object representation of the integer v (two's complement).*)
Bytes(v, n) == [k \in 1..n |-> (v \div Pow2(8 * (k - 1))) % 256]

----------------------------------------------------------------------------
(* Inputs: requests, images, keypoints, index answers *)

Threads == {1, 2}
ImageIds == {7, 300}

(* The byte buffers a client may send, by what imdecode makes of them:      *)
(* an exception, a Mat without data, or a w x h image in which SIFT finds   *)
(* n keypoints.                                                             *)
ValidSizes == {<<200, 200>>, <<601, 200>>, <<1000, 1000>>}
InvalidSizes == {<<199, 200>>, <<200, 199>>, <<199, 199>>, <<1001, 1000>>,
                 <<1000, 1001>>, <<1001, 1001>>, <<199, 1001>>, <<1001, 199>>}
Buffers ==
    {[kind |-> "throw", w |-> 0, h |-> 0, n |-> 0],
     [kind |-> "empty", w |-> 0, h |-> 0, n |-> 0]}
    \cup {[kind |-> "image", w |-> s[1], h |-> s[2], n |-> n] :
              s \in ValidSizes, n \in 0..MaxKeypoints}
    \cup {[kind |-> "image", w |-> s[1], h |-> s[2], n |-> 1] : s \in InvalidSizes}

NoImage == [data |-> FALSE, w |-> 0, h |-> 0, n |-> 0]

(* imdecode(imgData, CV_LOAD_IMAGE_GRAYSCALE) when it does not throw. *)
Imdecode(buf) ==
    IF buf.kind = "image"
    THEN [data |-> TRUE, w |-> buf.w, h |-> buf.h, n |-> buf.n]
    ELSE NoImage

(* Keypoint k of a w x h image: an angle in [0, 360), a sub-pixel position  *)
(* inside the image, a descriptor (named by a number).                      *)
AnglePool == << <<368639, 1024>>, <<13, 1>>, <<0, 1>> >>
XPool(w) == << <<2 * w - 1, 2>>,
               IF w = 601 THEN <<12020300, 32768>> ELSE <<w, 4>>,
               <<0, 1>> >>
YPool(h) == << <<h, 2>>, <<4 * h - 1, 4>>, <<0, 1>> >>
KeypointAt(k, w, h) ==
    LET c == ((k - 1) % 3) + 1
    IN  [angle |-> AnglePool[c], x |-> XPool(w)[c], y |-> YPool(h)[c], desc |-> k]

(* SIFT()(img, noArray(), keypoints, descriptors) *)
Sift(m) == [k \in 1..m.n |-> KeypointAt(k, m.w, m.h)]

(* What flann::Index::knnSearch may answer: at most Knn neighbours          *)
(* <<wordId, distance>> in ascending distance, ties by word id, word ids    *)
(* being rows of the vocabulary.                                            *)
IsAnswer(a) ==
    /\ Len(a) <= Knn
    /\ \A k \in 1..Len(a) : a[k][1] \in 0..(VocabularySize - 1) /\ a[k][2] >= 0
    /\ \A k \in 1..(Len(a) - 1) :
          \/ a[k][2] < a[k + 1][2]
          \/ a[k][2] = a[k + 1][2] /\ a[k][1] <= a[k + 1][1]
KnnAnswers ==
    {a \in { << <<5, 0>>, <<0, 3>>, <<999999, 3>>, <<70000, 9>> >>,
             << <<70000, 1>>, <<70000, 1>>, <<5, 2>>, <<0, 8>> >>,
             << <<999999, 4>>, <<5, 6>> >>,
             << >> } : IsAnswer(a)}

(* The entries of indices that knnSearch did not fill keep the 0 of         *)
(* vector<int> indices(4) or hold the library's -1.                         *)
Unfilled == {0, -1}

(* indices after index->knnSearch(descriptors.row(i), indices, dists, 4) *)
IndicesAfter(a, pad) == [k \in 1..Knn |-> IF k <= Len(a) THEN a[k][1] ELSE pad]

(* operator<< of an unsigned: its decimal digits. *)
DigitChars == <<"0", "1", "2", "3", "4", "5", "6", "7", "8", "9">>
RECURSIVE Digits(_)
Digits(n) ==
    IF n < 10 THEN <<DigitChars[n + 1]>>
    ELSE Digits(n \div 10) \o <<DigitChars[(n % 10) + 1]>>

(* The file name without the image id. *)
HitFilePathNoId(id) == <<"imageHits/", ".dat">>

(* Line 164: "imageHits/" << i_imageId << ".dat" *)
HitFilePath(id) == <<"imageHits/">> \o Digits(id) \o <<".dat">>

HitPaths == {HitFilePath(id) : id \in ImageIds}

NoFile == [exists |-> FALSE, bytes |-> << >>]
OldFile == [exists |-> TRUE, bytes |-> <<1, 2, 3>>]

----------------------------------------------------------------------------
(* Pure parts of processNewImage *)

(* The test of img.data left out. *)
HasDataAlways(m) == TRUE

(* img.data != NULL *)
HasData(m) == m.data

(* The size tests with >= and <= for > and <. *)
SizeCheckOffByOne(w, h) ==
    IF w >= MaxImageSize \/ h >= MaxImageSize THEN IMAGE_SIZE_TOO_BIG
    ELSE IF w <= MinImageSize \/ h <= MinImageSize THEN IMAGE_SIZE_TOO_SMALL
    ELSE "pass"

(* The two size tests in the other order. *)
SizeCheckSmallFirst(w, h) ==
    IF w < MinImageSize \/ h < MinImageSize THEN IMAGE_SIZE_TOO_SMALL
    ELSE IF w > MaxImageSize \/ h > MaxImageSize THEN IMAGE_SIZE_TOO_BIG
    ELSE "pass"

(* The two size tests, in the order of the code. *)
SizeCheck(w, h) ==
    IF w > MaxImageSize \/ h > MaxImageSize THEN IMAGE_SIZE_TOO_BIG
    ELSE IF w < MinImageSize \/ h < MinImageSize THEN IMAGE_SIZE_TOO_SMALL
    ELSE "pass"

(* The locals angle, x, y of one keypoint. *)
Encode(kp, w, h) ==
    [angle |-> Fixed16(kp.angle[1], kp.angle[2], FullTurn),
     x     |-> Fixed16(kp.x[1], kp.x[2], w),
     y     |-> Fixed16(kp.y[1], kp.y[2], h)]

(* newHit with indices[0] for indices[j]. *)
NewHitFirstIndex(ind, n, id, fx) ==
    [i_wordId |-> ind[1], i_imageId |-> id, i_angle |-> fx.angle,
     x |-> fx.x, y |-> fx.y]

(* HitForward newHit of the inner loop, n = j + 1 *)
NewHit(ind, n, id, fx) ==
    [i_wordId |-> ind[n], i_imageId |-> id, i_angle |-> fx.angle,
     x |-> fx.x, y |-> fx.y]

(* The five ofs.write calls of writeHit, in order. *)
HitFields(hit) ==
    << Bytes(hit.i_wordId, 4), Bytes(hit.i_imageId, 4), Bytes(hit.i_angle, 2),
       Bytes(hit.x, 2), Bytes(hit.y, 2) >>

RECURSIVE Concat(_)
Concat(ss) == IF ss = << >> THEN << >> ELSE Head(ss) \o Concat(Tail(ss))

----------------------------------------------------------------------------
(* Vocabulary files for readVisualWords, byte by byte *)

RowBytes == RowFloats * FloatSize

(* The 128 floats of record r; one of their bytes is a newline. *)
RecordBytes(r) == [k \in 1..RowBytes |-> IF k = 3 THEN Newline ELSE r]

(* What separates a record from the next: bytes up to a newline. *)
Delims == {<<Newline>>, <<13, Newline>>, <<32, 9, Newline>>}

(* What follows the last delimited record: nothing, the first bytes of a    *)
(* further record, or a whole further record with no newline after it.      *)
Tails == {"none", "partial1", "partial4", "partial511", "complete", "completeCR"}
LastRecord == 9
TailBytes(tail) ==
    CASE tail = "none" -> << >>
      [] tail = "partial1" -> SubSeq(RecordBytes(LastRecord), 1, 1)
      [] tail = "partial4" -> SubSeq(RecordBytes(LastRecord), 1, 4)
      [] tail = "partial511" -> SubSeq(RecordBytes(LastRecord), 1, RowBytes - 1)
      [] tail = "complete" -> RecordBytes(LastRecord)
      [] tail = "completeCR" -> RecordBytes(LastRecord) \o <<13>>

RecordLists == UNION {[1..n -> {1, 2}] : n \in 0..MaxRecords}

VocInputs ==
    [openable : {TRUE}, recs : RecordLists, delim : Delims, tail : Tails]
    \cup {[openable |-> FALSE, recs |-> << >>, delim |-> <<Newline>>, tail |-> "none"]}

(* The bytes of the file. *)
VocContent(f) ==
    Concat([k \in 1..Len(f.recs) |-> RecordBytes(f.recs[k]) \o f.delim])
    \o TailBytes(f.tail)

(* Position of the first newline of bytes after position p (0: none). *)
RECURSIVE NextNewline(_, _)
NextNewline(bytes, p) ==
    IF p >= Len(bytes) THEN 0
    ELSE IF bytes[p + 1] = Newline THEN p + 1
    ELSE NextNewline(bytes, p + 1)

NoVocIn == [openable |-> FALSE, recs |-> << >>, delim |-> <<Newline>>, tail |-> "none"]
ReaderStart == [pc |-> "start", pos |-> 0, good |-> FALSE, rows |-> << >>, ret |-> "none"]

----------------------------------------------------------------------------
(* Initial state: the object is constructed, nothing is loaded, no request  *)
(* runs.  The hit directory holds either no file or an older file for       *)
(* every image id.                                                          *)

VocFiles == [openable : BOOLEAN, records : {VocabularySize - 1, VocabularySize}]

NoStream == [open |-> FALSE, good |-> TRUE]
NoFixed == [angle |-> 0, x |-> 0, y |-> 0]

InitRequests ==
    /\ pc = [t \in Threads |-> "idle"]
    /\ imageId = [t \in Threads |-> 0]
    /\ img = [t \in Threads |-> NoImage]
    /\ keypoints = [t \in Threads |-> << >>]
    /\ i = [t \in Threads |-> 0]
    /\ j = [t \in Threads |-> 0]
    /\ fixed = [t \in Threads |-> NoFixed]
    /\ indices = [t \in Threads |-> [k \in 1..Knn |-> 0]]
    /\ ofs = [t \in Threads |-> NoStream]
    /\ replies = [t \in Threads |-> << >>]
    /\ ret = [t \in Threads |-> "none"]
    /\ log = [t \in Threads |-> << >>]
    /\ queries = [t \in Threads |-> << >>]

Init ==
    /\ vocFile \in VocFiles
    /\ module = "constructed"
    /\ words = -1
    /\ files \in {[p \in HitPaths |-> NoFile], [p \in HitPaths |-> OldFile]}
    /\ InitRequests
    /\ encIn = <<0, 1, 1>>
    /\ encOut = -1
    /\ vocIn = NoVocIn
    /\ reader = ReaderStart

----------------------------------------------------------------------------
(* init() and stop() *)

(* init(): the rows readVisualWords loads are the complete records of the  *)
(* file; an unopenable file ends the process with exit(1).  The row count   *)
(* is tested by an assert only: a build with NDEBUG has no such test and    *)
(* goes on to load the index, any other build aborts on a wrong count.      *)
InitModule ==
    /\ module = "constructed"
    /\ IF ~vocFile.openable
       THEN module' = "exited" /\ words' = 0
       ELSE /\ words' = vocFile.records
            /\ \E ndebug \in BOOLEAN :
                  module' = IF ndebug \/ vocFile.records = VocabularySize
                            THEN "ready" ELSE "exited"
    /\ UNCHANGED <<vocFile, files, pc, imageId, img, keypoints, i, j, fixed,
                   indices, ofs, replies, ret, log, queries, encIn, encOut,
                   vocIn, reader>>

(* stop(), called while no request is running. *)
Stop ==
    /\ module = "ready"
    /\ \A t \in Threads : pc[t] \in {"idle", "done"}
    /\ module' = "stopped"
    /\ words' = -1
    /\ UNCHANGED <<vocFile, files, pc, imageId, img, keypoints, i, j, fixed,
                   indices, ofs, replies, ret, log, queries, encIn, encOut,
                   vocIn, reader>>

----------------------------------------------------------------------------
(* processNewImage, one action per step of request t *)

Did(t, what, arg) == log' = [log EXCEPT ![t] = Append(@, <<what, arg>>)]

(* A return without the sendReply. *)
ExitSilent(t, code, r) ==
    /\ replies' = replies
    /\ ret' = [ret EXCEPT ![t] = r]
    /\ pc' = [pc EXCEPT ![t] = "done"]

(* p_client->sendReply(code); return r; *)
Exit(t, code, r) ==
    /\ replies' = [replies EXCEPT ![t] = Append(@, code)]
    /\ ret' = [ret EXCEPT ![t] = r]
    /\ pc' = [pc EXCEPT ![t] = "done"]

(* Lines 42-63: the call, imdecode and the test of img.data. *)
Decode(t) ==
    /\ pc[t] = "idle"
    /\ module = "ready"
    /\ \E id \in ImageIds, buf \in Buffers :
          /\ imageId' = [imageId EXCEPT ![t] = id]
          /\ Did(t, "decode", 0)
          /\ IF buf.kind = "throw"
             THEN /\ Exit(t, IMAGE_NOT_DECODED, "false")
                  /\ UNCHANGED img
             ELSE /\ img' = [img EXCEPT ![t] = Imdecode(buf)]
                  /\ IF ~HasData(Imdecode(buf))
                     THEN Exit(t, IMAGE_NOT_DECODED, "false")
                     ELSE /\ pc' = [pc EXCEPT ![t] = "validate"]
                          /\ UNCHANGED <<replies, ret>>
    /\ UNCHANGED <<vocFile, module, words, files, keypoints, i, j, fixed,
                   indices, ofs, queries, encIn, encOut,
                   vocIn, reader>>

(* The size tests without their return statements. *)
ValidateNoReturn(t) ==
    /\ pc[t] = "validate"
    /\ Did(t, "validate", 0)
    /\ LET c == SizeCheck(img[t].w, img[t].h)
       IN  /\ replies' = [replies EXCEPT ![t] = IF c = "pass" THEN @ ELSE Append(@, c)]
           /\ pc' = [pc EXCEPT ![t] = "detect"]
           /\ UNCHANGED ret
    /\ UNCHANGED <<vocFile, module, words, files, imageId, img, keypoints, i, j,
                   fixed, indices, ofs, queries, encIn, encOut,
                   vocIn, reader>>

(* Lines 65-85: the size tests. *)
Validate(t) ==
    /\ pc[t] = "validate"
    /\ Did(t, "validate", 0)
    /\ LET c == SizeCheck(img[t].w, img[t].h)
       IN  IF c = "pass"
           THEN /\ pc' = [pc EXCEPT ![t] = "detect"]
                /\ UNCHANGED <<replies, ret>>
           ELSE Exit(t, c, "false")
    /\ UNCHANGED <<vocFile, module, words, files, imageId, img, keypoints, i, j,
                   fixed, indices, ofs, queries, encIn, encOut,
                   vocIn, reader>>

(* Lines 87-90: SIFT. *)
Detect(t) ==
    /\ pc[t] = "detect"
    /\ Did(t, "detect", 0)
    /\ keypoints' = [keypoints EXCEPT ![t] = Sift(img[t])]
    /\ pc' = [pc EXCEPT ![t] = "open"]
    /\ UNCHANGED <<vocFile, module, words, files, imageId, img, i, j, fixed,
                   indices, ofs, replies, ret, queries, encIn, encOut,
                   vocIn, reader>>

(* openHitFile whose failure is not followed by the reply and the return.   *)
OpenHitFileGoesOn(t) ==
    /\ pc[t] = "open"
    /\ \E opened \in BOOLEAN :
          /\ ofs' = [ofs EXCEPT ![t] = [open |-> opened, good |-> opened]]
          /\ files' = IF opened
                      THEN [files EXCEPT ![HitFilePath(imageId[t])] =
                                [exists |-> TRUE, bytes |-> << >>]]
                      ELSE files
          /\ log' = [log EXCEPT ![t] = @ \o (IF opened THEN << <<"open", 1>> >>
                                            ELSE << <<"open", 0>>, <<"close", 0>> >>)]
          /\ i' = [i EXCEPT ![t] = 0]
          /\ pc' = [pc EXCEPT ![t] = "loop"]
          /\ UNCHANGED <<replies, ret>>
    /\ UNCHANGED <<vocFile, module, words, imageId, img, keypoints, j, fixed,
                   indices, queries, encIn, encOut, vocIn, reader>>

(* Lines 96-103 with openHitFile (161-176): the open truncates or creates   *)
(* imageHits/<id>.dat, or fails and leaves the directory as it was.         *)
OpenHitFile(t) ==
    /\ pc[t] = "open"
    /\ \E opened \in BOOLEAN :
          IF opened
          THEN /\ files' = [files EXCEPT ![HitFilePath(imageId[t])] =
                                [exists |-> TRUE, bytes |-> << >>]]
               /\ ofs' = [ofs EXCEPT ![t] = [open |-> TRUE, good |-> TRUE]]
               /\ Did(t, "open", 1)
               /\ i' = [i EXCEPT ![t] = 0]
               /\ pc' = [pc EXCEPT ![t] = "loop"]
               /\ UNCHANGED <<replies, ret>>
          ELSE /\ ofs' = [ofs EXCEPT ![t] = [open |-> FALSE, good |-> FALSE]]
               /\ log' = [log EXCEPT ![t] = @ \o << <<"open", 0>>, <<"close", 0>> >>]
               /\ Exit(t, ERROR_GENERIC, "false")
               /\ UNCHANGED <<files, i>>
    /\ UNCHANGED <<vocFile, module, words, imageId, img, keypoints, j, fixed,
                   indices, queries, encIn, encOut,
                   vocIn, reader>>

(* Lines 105-117: the head of the outer loop for the next keypoint, its     *)
(* three conversions and its one knnSearch.                                 *)
NextKeypoint(t) ==
    /\ pc[t] = "loop"
    /\ i[t] < Len(keypoints[t])
    /\ module = "ready"
    /\ LET kp == keypoints[t][i[t] + 1]
       IN  /\ i' = [i EXCEPT ![t] = @ + 1]
           /\ fixed' = [fixed EXCEPT ![t] = Encode(kp, img[t].w, img[t].h)]
           /\ Did(t, "query", kp.desc)
           /\ \E a \in KnnAnswers, pad \in Unfilled :
                 /\ Len(a) = Knn => pad = 0
                 /\ indices' = [indices EXCEPT ![t] = IndicesAfter(a, pad)]
                 /\ queries' = [queries EXCEPT ![t] = Append(@,
                        [desc |-> kp.desc, answer |-> a,
                         indices |-> IndicesAfter(a, pad)])]
    /\ j' = [j EXCEPT ![t] = 0]
    /\ pc' = [pc EXCEPT ![t] = "hit"]
    /\ UNCHANGED <<vocFile, module, words, files, imageId, img, keypoints, ofs,
                   replies, ret, encIn, encOut,
                   vocIn, reader>>

(* Lines 119-134 with writeHit (185-200): one pass of the inner loop.       *)
(* writeHit tests the stream once, then issues its five writes; a write     *)
(* that fails sets the stream bad, adds nothing to the file, and the writes  *)
(* after it do nothing.  done counts the writes that succeeded.             *)
WriteHit(t) ==
    /\ pc[t] = "hit"
    /\ LET hit == NewHit(indices[t], j[t] + 1, imageId[t], fixed[t])
       IN  IF ~ofs[t].good
           THEN /\ ofs' = [ofs EXCEPT ![t].open = FALSE]
                /\ log' = [log EXCEPT ![t] = @ \o << <<"writeHit", -1>>, <<"close", 0>> >>]
                /\ Exit(t, ERROR_GENERIC, "false")
                /\ UNCHANGED <<files, j>>
           ELSE \E done \in 0..5 :
                   /\ files' = [files EXCEPT ![HitFilePath(imageId[t])].bytes =
                                    @ \o Concat(SubSeq(HitFields(hit), 1, done))]
                   /\ ofs' = [ofs EXCEPT ![t].good = (done = 5)]
                   /\ Did(t, "writeHit", done)
                   /\ j' = [j EXCEPT ![t] = @ + 1]
                   /\ pc' = [pc EXCEPT ![t] = IF j[t] + 1 < Len(indices[t])
                                              THEN "hit" ELSE "loop"]
                   /\ UNCHANGED <<replies, ret>>
    /\ UNCHANGED <<vocFile, module, words, imageId, img, keypoints, i, fixed,
                   indices, queries, encIn, encOut,
                   vocIn, reader>>

(* The end of the outer loop without ofs.close(). *)
CloseSkipped(t) ==
    /\ pc[t] = "loop"
    /\ i[t] = Len(keypoints[t])
    /\ pc' = [pc EXCEPT ![t] = "reply"]
    /\ UNCHANGED <<vocFile, module, words, files, imageId, img, keypoints, i, j,
                   fixed, indices, ofs, replies, ret, log, queries, encIn, encOut,
                   vocIn, reader>>

(* Line 137: ofs.close() after the last keypoint. *)
Close(t) ==
    /\ pc[t] = "loop"
    /\ i[t] = Len(keypoints[t])
    /\ ofs' = [ofs EXCEPT ![t].open = FALSE]
    /\ Did(t, "close", 0)
    /\ pc' = [pc EXCEPT ![t] = "reply"]
    /\ UNCHANGED <<vocFile, module, words, files, imageId, img, keypoints, i, j,
                   fixed, indices, replies, ret, queries, encIn, encOut,
                   vocIn, reader>>

(* Lines 150-152: sendReply(OK); return true. *)
ReplyOk(t) ==
    /\ pc[t] = "reply"
    /\ Exit(t, OK, "true")
    /\ UNCHANGED <<vocFile, module, words, files, imageId, img, keypoints, i, j,
                   fixed, indices, ofs, log, queries, encIn, encOut,
                   vocIn, reader>>

Request(t) ==
    \/ Decode(t)
    \/ Validate(t)
    \/ Detect(t)
    \/ OpenHitFile(t)
    \/ NextKeypoint(t)
    \/ WriteHit(t)
    \/ Close(t)
    \/ ReplyOk(t)

(* One client connection: requests are served one at a time. *)
Next == InitModule \/ Stop \/ Request(1)

Spec == Init /\ [][Next]_vars

----------------------------------------------------------------------------
(* Two requests on one connection, the second called when the first has     *)
(* returned.  The runs kept are those in which the index answers every      *)
(* query with Knn neighbours and no write of the first request fails.       *)

InitSeq ==
    /\ vocFile = [openable |-> TRUE, records |-> VocabularySize]
    /\ module = "constructed"
    /\ words = -1
    /\ files = [p \in HitPaths |-> NoFile]
    /\ InitRequests
    /\ encIn = <<0, 1, 1>>
    /\ encOut = -1
    /\ vocIn = NoVocIn
    /\ reader = ReaderStart

SeqRuns ==
    /\ \A t \in Threads : \A k \in 1..Len(queries[t]) :
          Len(queries[t][k].answer) = Knn
    /\ \A k \in 1..Len(log[1]) : log[1][k][1] = "writeHit" => log[1][k][2] = 5

SeqNext ==
    /\ \/ InitModule
       \/ Request(1)
       \/ pc[1] = "done" /\ Request(2)
    /\ SeqRuns'

SpecSeq == InitSeq /\ [][SeqNext]_vars

----------------------------------------------------------------------------
(* Two connections: the requests of threads 1 and 2 run concurrently, each  *)
(* step of one interleaved with the steps of the other.  The runs kept are  *)
(* those with image id 7 on thread 1 and 300 on thread 2, images of         *)
(* 200 x 200 among the valid ones, and the first answer of KnnAnswers to    *)
(* every query.                                                             *)

ConcRuns ==
    /\ pc[1] # "idle" => imageId[1] = 7
    /\ pc[2] # "idle" => imageId[2] = 300
    /\ \A t \in Threads :
          /\ SizeCheck(img[t].w, img[t].h) = "pass" => img[t].w = 200 /\ img[t].h = 200
          /\ \A k \in 1..Len(queries[t]) :
                queries[t][k].answer = << <<5, 0>>, <<0, 3>>, <<999999, 3>>, <<70000, 9>> >>

ConcNext ==
    /\ \/ InitModule
       \/ Request(1)
       \/ Request(2)
    /\ ConcRuns'

SpecConc == InitSeq /\ [][ConcNext]_vars

----------------------------------------------------------------------------
(* stop() as it is written, with no lock (line 33 is a TODO): it may run    *)
(* at any point of a request.  Here knnSearch has a beginning and an end.   *)

(* Lines 31-36: delete words; delete index. *)
StopUnguarded ==
    /\ module = "ready"
    /\ module' = "stopped"
    /\ words' = -1
    /\ UNCHANGED <<vocFile, files, pc, imageId, img, keypoints, i, j, fixed,
                   indices, ofs, replies, ret, log, queries, encIn, encOut,
                   vocIn, reader>>

(* Lines 105-117 up to the call of index->knnSearch. *)
BeginQuery(t) ==
    /\ pc[t] = "loop"
    /\ i[t] < Len(keypoints[t])
    /\ LET kp == keypoints[t][i[t] + 1]
       IN  /\ i' = [i EXCEPT ![t] = @ + 1]
           /\ fixed' = [fixed EXCEPT ![t] = Encode(kp, img[t].w, img[t].h)]
           /\ Did(t, "query", kp.desc)
    /\ pc' = [pc EXCEPT ![t] = "knn"]
    /\ UNCHANGED <<vocFile, module, words, files, imageId, img, keypoints, j,
                   indices, ofs, replies, ret, queries, encIn, encOut,
                   vocIn, reader>>

(* The return of index->knnSearch.  On a live index it is one of the        *)
(* answers of the contract; on a deleted index the behaviour is undefined:  *)
(* the process may die, or the call may return anything an index returns.   *)
EndQuery(t) ==
    /\ pc[t] = "knn"
    /\ \E crash \in BOOLEAN, a \in KnnAnswers, pad \in Unfilled :
          /\ crash => module # "ready"
          /\ Len(a) = Knn => pad = 0
          /\ IF crash
             THEN /\ pc' = [pc EXCEPT ![t] = "crashed"]
                  /\ UNCHANGED <<indices, queries, j>>
             ELSE /\ indices' = [indices EXCEPT ![t] = IndicesAfter(a, pad)]
                  /\ queries' = [queries EXCEPT ![t] = Append(@,
                         [desc |-> keypoints[t][i[t]].desc, answer |-> a,
                          indices |-> IndicesAfter(a, pad)])]
                  /\ j' = [j EXCEPT ![t] = 0]
                  /\ pc' = [pc EXCEPT ![t] = "hit"]
    /\ UNCHANGED <<vocFile, module, words, files, imageId, img, keypoints, i,
                   fixed, ofs, replies, ret, log, encIn, encOut, vocIn, reader>>

StopNext ==
    \/ InitModule
    \/ StopUnguarded
    \/ Decode(1)
    \/ Validate(1)
    \/ Detect(1)
    \/ OpenHitFile(1)
    \/ BeginQuery(1)
    \/ EndQuery(1)
    \/ WriteHit(1)
    \/ Close(1)
    \/ ReplyOk(1)

SpecStop == InitSeq /\ [][StopNext]_vars

----------------------------------------------------------------------------
(* The conversions of lines 111-113 on their own: a value num/den and the   *)
(* divisor d (360, the width or the height), converted once.                *)

AngleGrid == 8
PixelGrid == 2

EncInputs ==
    {<<n, AngleGrid, FullTurn>> : n \in 0..(FullTurn * AngleGrid - 1)}
    \cup {<<n, PixelGrid, s[1]>> : n \in 0..(PixelGrid * MinImageSize - 1), s \in ValidSizes}
    \cup {<<PixelGrid * s[1] - n, PixelGrid, s[1]>> : n \in 1..PixelGrid, s \in ValidSizes}
    \cup {<<368639, 1024, FullTurn>>, <<12020300, 32768, 601>>, <<4 * 200 - 1, 4, 200>>}

InitEnc ==
    /\ vocFile = [openable |-> TRUE, records |-> VocabularySize]
    /\ module = "constructed"
    /\ words = -1
    /\ files = [p \in HitPaths |-> NoFile]
    /\ InitRequests
    /\ encIn \in EncInputs
    /\ encOut = -1
    /\ vocIn = NoVocIn
    /\ reader = ReaderStart

Convert ==
    /\ encOut = -1
    /\ encOut' = Fixed16(encIn[1], encIn[2], encIn[3])
    /\ UNCHANGED <<vocFile, module, words, files, pc, imageId, img, keypoints, i,
                   j, fixed, indices, ofs, replies, ret, log, queries, encIn,
                   vocIn, reader>>

SpecEnc == InitEnc /\ [][Convert]_vars

----------------------------------------------------------------------------
(* readVisualWords (209-241) on its own, on a small file: the open, one     *)
(* action per pass of the while loop, the close and return.                 *)

InitRead ==
    /\ vocFile = [openable |-> TRUE, records |-> VocabularySize]
    /\ module = "constructed"
    /\ words = -1
    /\ files = [p \in HitPaths |-> NoFile]
    /\ InitRequests
    /\ encIn = <<0, 1, 1>>
    /\ encOut = -1
    /\ vocIn \in VocInputs
    /\ reader = ReaderStart

(* Lines 214-221: ifs.open and the test of the stream. *)
OpenVoc ==
    /\ reader.pc = "start"
    /\ reader' = IF vocIn.openable
                 THEN [reader EXCEPT !.pc = "loop", !.good = TRUE]
                 ELSE [reader EXCEPT !.pc = "returned", !.ret = "false"]
    /\ UNCHANGED <<vocFile, module, words, files, pc, imageId, img, keypoints, i,
                   j, fixed, indices, ofs, replies, ret, log, queries, encIn,
                   encOut, vocIn>>

(* A pass that appends the row without the test of the stream. *)
ReadRecordUnchecked ==
    /\ reader.pc = "loop" /\ reader.good
    /\ LET bytes == VocContent(vocIn)
           p     == reader.pos
           got   == IF p + RowBytes <= Len(bytes) THEN RowBytes ELSE Len(bytes) - p
           nl    == NextNewline(bytes, p + got)
       IN  reader' = [reader EXCEPT
                         !.rows = Append(@, SubSeq(bytes, p + 1, p + got)),
                         !.pos = IF nl = 0 THEN Len(bytes) ELSE nl,
                         !.good = (nl # 0)]
    /\ UNCHANGED <<vocFile, module, words, files, pc, imageId, img, keypoints, i,
                   j, fixed, indices, ofs, replies, ret, log, queries, encIn,
                   encOut, vocIn>>

(* Lines 224-236, one pass: 128 reads of a float, which succeed together    *)
(* when 512 bytes are left; then the row is appended and ignore() skips to  *)
(* just after the next newline, or to the end of the file, which ends the   *)
(* stream's good state.  A short read ends it too, and appends nothing.     *)
ReadRecord ==
    /\ reader.pc = "loop" /\ reader.good
    /\ LET bytes == VocContent(vocIn)
           p     == reader.pos
       IN  IF p + RowBytes <= Len(bytes)
           THEN LET nl == NextNewline(bytes, p + RowBytes)
                IN  reader' = [reader EXCEPT
                                  !.rows = Append(@, SubSeq(bytes, p + 1, p + RowBytes)),
                                  !.pos = IF nl = 0 THEN Len(bytes) ELSE nl,
                                  !.good = (nl # 0)]
           ELSE reader' = [reader EXCEPT !.pos = Len(bytes), !.good = FALSE]
    /\ UNCHANGED <<vocFile, module, words, files, pc, imageId, img, keypoints, i,
                   j, fixed, indices, ofs, replies, ret, log, queries, encIn,
                   encOut, vocIn>>

(* Lines 238-240: the loop has ended; ifs.close(); return true. *)
CloseVoc ==
    /\ reader.pc = "loop" /\ ~reader.good
    /\ reader' = [reader EXCEPT !.pc = "returned", !.ret = "true"]
    /\ UNCHANGED <<vocFile, module, words, files, pc, imageId, img, keypoints, i,
                   j, fixed, indices, ofs, replies, ret, log, queries, encIn,
                   encOut, vocIn>>

ReadNext == OpenVoc \/ ReadRecord \/ CloseVoc

SpecRead == InitRead /\ [][ReadNext]_vars

----------------------------------------------------------------------------
(* Vocabulary of the properties *)

Codes == {OK, IMAGE_NOT_DECODED, IMAGE_SIZE_TOO_BIG, IMAGE_SIZE_TOO_SMALL, ERROR_GENERIC}
InitialFiles == {NoFile, OldFile}

Has(t, what) == \E k \in 1..Len(log[t]) : log[t][k][1] = what
Count(t, what) == Cardinality({k \in 1..Len(log[t]) : log[t][k][1] = what})
Replied(t, code) == replies[t] = <<code>>
WriteFailed(t) ==
    \E k \in 1..Len(log[t]) : log[t][k][1] = "writeHit" /\ log[t][k][2] \in 0..4

(* The exact value num/den / d * 65536 as the fraction ExactNum / ExactDen. *)
ExactNum(e) == IF Fixed16One % e[2] = 0 THEN e[1] * (Fixed16One \div e[2])
                                         ELSE e[1] * Fixed16One
ExactDen(e) == IF Fixed16One % e[2] = 0 THEN e[3] ELSE e[2] * e[3]
Floor(e) == ExactNum(e) \div ExactDen(e)
Round(e) == (2 * ExactNum(e) + ExactDen(e)) \div (2 * ExactDen(e))

(* The 14-byte record of hit n of keypoint k of request t. *)
Record(t, k, n) ==
    LET fx == Encode(keypoints[t][k], img[t].w, img[t].h)
    IN  Bytes(queries[t][k].indices[n], 4) \o Bytes(imageId[t], 4)
        \o Bytes(fx.angle, 2) \o Bytes(fx.x, 2) \o Bytes(fx.y, 2)

(* The first cnt records of request t, keypoint by keypoint. *)
Records(t, cnt) ==
    Concat([c \in 1..cnt |-> Record(t, ((c - 1) \div Knn) + 1, ((c - 1) % Knn) + 1)])

(* writeHit calls request t has completed. *)
HitsDone(t) == IF i[t] = 0 THEN 0 ELSE Knn * (i[t] - 1) + j[t]

----------------------------------------------------------------------------
(* C1: every call of processNewImage sends exactly one status code, from    *)
(* the fixed set, before it returns (none while it runs), and returns true  *)
(* exactly when that code is OK.                                            *)
C1_OneTerminalReply ==
    \A t \in Threads :
        /\ pc[t] # "done" => replies[t] = << >> /\ ret[t] = "none"
        /\ pc[t] = "done" =>
              /\ Len(replies[t]) = 1
              /\ replies[t][1] \in Codes
              /\ ret[t] \in {"true", "false"}
              /\ (ret[t] = "true") <=> (replies[t][1] = OK)

C1_Witness ==
    /\ pc[1] = "done" /\ Replied(1, ERROR_GENERIC) /\ ret[1] = "false"
    /\ WriteFailed(1)

(* C2, as amended: sizes in [200, 1000] x [200, 1000] pass validation; a    *)
(* dimension of 1001 is answered IMAGE_SIZE_TOO_BIG; a dimension of 199 is  *)
(* answered IMAGE_SIZE_TOO_SMALL when neither dimension exceeds 1000.       *)
C2_SizeValidation ==
    \A t \in Threads :
        Has(t, "validate") =>
            LET w == img[t].w
                h == img[t].h
            IN  /\ (w \in 200..1000 /\ h \in 200..1000) =>
                      /\ Has(t, "detect") \/ pc[t] = "detect"
                      /\ ~Replied(t, IMAGE_SIZE_TOO_BIG)
                      /\ ~Replied(t, IMAGE_SIZE_TOO_SMALL)
                /\ (w = 1001 \/ h = 1001) => Replied(t, IMAGE_SIZE_TOO_BIG)
                /\ ((w = 199 \/ h = 199) /\ w <= 1000 /\ h <= 1000) =>
                      Replied(t, IMAGE_SIZE_TOO_SMALL)

C2_Witness ==
    /\ Has(1, "validate") /\ img[1].w = 199 /\ img[1].h = 200
    /\ Replied(1, IMAGE_SIZE_TOO_SMALL)

(* C2 as stated: every image with a dimension of 199 is answered            *)
(* IMAGE_SIZE_TOO_SMALL and every image with a dimension of 1001            *)
(* IMAGE_SIZE_TOO_BIG.                                                      *)
C2_Original ==
    \A t \in Threads :
        Has(t, "validate") =>
            /\ (img[t].w = 1001 \/ img[t].h = 1001) => Replied(t, IMAGE_SIZE_TOO_BIG)
            /\ (img[t].w = 199 \/ img[t].h = 199) => Replied(t, IMAGE_SIZE_TOO_SMALL)

(* C3: a request whose buffer does not decode (imdecode throws or returns   *)
(* no data) is over after the decode step with IMAGE_NOT_DECODED, never     *)
(* calls openHitFile or writeHit, and the hit file of its image id is as    *)
(* it was before the request.                                               *)
C3_UndecodableNoFile ==
    \A t \in Threads :
        (pc[t] # "idle" /\ ~img[t].data) =>
            /\ pc[t] = "done"
            /\ Replied(t, IMAGE_NOT_DECODED)
            /\ log[t] = << <<"decode", 0>> >>
            /\ ~ofs[t].open
            /\ files[HitFilePath(imageId[t])] \in InitialFiles

C3_Witness ==
    /\ pc[1] = "done" /\ ~img[1].data /\ Replied(1, IMAGE_NOT_DECODED)
    /\ files[HitFilePath(imageId[1])] = NoFile

(* C4: once a request has been answered IMAGE_SIZE_TOO_BIG or               *)
(* IMAGE_SIZE_TOO_SMALL it is over, and it has run no detection, no         *)
(* nearest-neighbour query, no open of the hit file and no writeHit.        *)
C4_SizeRejectionTerminal ==
    \A t \in Threads :
        (replies[t] # << >> /\ replies[t][1] \in {IMAGE_SIZE_TOO_BIG, IMAGE_SIZE_TOO_SMALL}) =>
            /\ pc[t] = "done"
            /\ log[t] = << <<"decode", 0>>, <<"validate", 0>> >>
            /\ keypoints[t] = << >> /\ queries[t] = << >>
            /\ ~ofs[t].open
            /\ files[HitFilePath(imageId[t])] \in InitialFiles

C4_Witness ==
    /\ pc[1] = "done" /\ Replied(1, IMAGE_SIZE_TOO_BIG) /\ img[1].w = 1001
    /\ files[HitFilePath(imageId[1])] = OldFile

(* C5: a request in which a write of a field of a hit failed ends with      *)
(* ERROR_GENERIC and never with OK, its stream closed and its file still    *)
(* on disk; this includes a write of the last hit of the last keypoint.     *)
C5_FailedWriteAborts ==
    \A t \in Threads :
        (pc[t] = "done" /\ WriteFailed(t)) =>
            /\ Replied(t, ERROR_GENERIC)
            /\ ~ofs[t].open
            /\ files[HitFilePath(imageId[t])].exists

(* C6: when a request is answered OK, its hit file holds all hits of all    *)
(* keypoints: 4 complete records per keypoint, in keypoint order and in     *)
(* the order of the index's answer, each with the caller's imageId and the  *)
(* keypoint's angle, x and y.                                               *)
C6_OkMeansAllHits ==
    \A t \in Threads :
        (pc[t] = "done" /\ Replied(t, OK)) =>
            /\ files[HitFilePath(imageId[t])].exists
            /\ files[HitFilePath(imageId[t])].bytes =
                  Records(t, Knn * Len(keypoints[t]))

(* C7: every writeHit on a healthy stream appends 14 bytes, wordId (4),     *)
(* imageId (4), angle (2), x (2), y (2) in that order, and after a request  *)
(* answered OK the file is 14 * 4 * (number of keypoints) bytes long, with  *)
(* nothing before, between or after the records.                            *)
C7_FourteenBytesPerHit ==
    \A t \in Threads :
        /\ (Has(t, "writeHit") /\ ofs[t].good) =>
              /\ Len(files[HitFilePath(imageId[t])].bytes) = 14 * HitsDone(t)
              /\ files[HitFilePath(imageId[t])].bytes = Records(t, HitsDone(t))
        /\ (pc[t] = "done" /\ Replied(t, OK)) =>
              Len(files[HitFilePath(imageId[t])].bytes) = 14 * Knn * Len(keypoints[t])

(* C8, as amended: the stored 16-bit value is the integer part of the       *)
(* single-precision value of v = a / d * 65536 (a the angle and d = 360,    *)
(* or a = x, y and d the width, height): it lies in [0, 65535], it is       *)
(* floor(v) unless v lies within 1/256 below the next integer, where the    *)
(* float quotient may round up and give floor(v) + 1; nothing is rounded    *)
(* to nearest and nothing is reduced mod 65536.                             *)
C8_TruncatedFixedPoint ==
    encOut # -1 =>
        LET f    == Floor(encIn)
            rest == ExactDen(encIn) - (ExactNum(encIn) % ExactDen(encIn))
        IN  /\ encOut \in 0..(Fixed16One - 1)
            /\ encOut \in {f, f + 1}
            /\ 256 * rest > ExactDen(encIn) => encOut = f

(* An angle just below 360: v = 65535.82, stored as 65535. *)
C8_Witness == encIn = <<368639, 1024, FullTurn>> /\ encOut = Fixed16One - 1

(* C8 as stated: the stored value is round(a / d * 65536) mod 65536. *)
C8_Original == encOut # -1 => encOut = Round(encIn) % Fixed16One

(* C9: the stored value decodes to within one quantization step of the      *)
(* input: |encOut / 65536 * d - a| <= d / 65536, for the angle with         *)
(* d = 360 and for x, y with d the width, height.                           *)
C9_RoundTripWithinOneStep ==
    encOut # -1 =>
        LET diff == encOut * ExactDen(encIn) - ExactNum(encIn)
        IN  /\ diff <= ExactDen(encIn)
            /\ -diff <= ExactDen(encIn)

(* A position whose float quotient rounds up to the next multiple of 2^-16. *)
C9_Witness == encIn = <<12020300, 32768, 601>> /\ encOut = Floor(encIn) + 1

(* C10: each keypoint the outer loop has entered got exactly one            *)
(* knnSearch, with its own descriptor; while no write has failed, the file  *)
(* holds 4 records for every finished keypoint (and the first j of the      *)
(* current one), record n of a keypoint carrying entry n of the answer:     *)
(* ascending distance, the nearest neighbour first, duplicates kept.        *)
C10_OneQueryFourHits ==
    \A t \in Threads :
        /\ Len(queries[t]) = i[t]
        /\ Count(t, "query") = i[t]
        /\ \A k \in 1..Len(queries[t]) :
              /\ queries[t][k].desc = keypoints[t][k].desc
              /\ IsAnswer(queries[t][k].answer)
        /\ (Has(t, "writeHit") /\ ofs[t].good) =>
              /\ Len(files[HitFilePath(imageId[t])].bytes) = 14 * HitsDone(t)
              /\ pc[t] \in {"loop", "reply", "done"} => HitsDone(t) = Knn * i[t]
              /\ \A c \in 1..HitsDone(t) :
                    LET k == ((c - 1) \div Knn) + 1
                        n == ((c - 1) % Knn) + 1
                        a == queries[t][k].answer
                    IN  n <= Len(a) =>
                          SubSeq(files[HitFilePath(imageId[t])].bytes,
                                 14 * (c - 1) + 1, 14 * (c - 1) + 4)
                              = Bytes(a[n][1], 4)

(* Two keypoints, the second answered with a duplicated word id. *)
C10_Witness ==
    /\ pc[1] = "done" /\ Replied(1, OK) /\ ofs[1].good
    /\ Len(keypoints[1]) = 2 /\ Len(queries[1]) = 2
    /\ Len(queries[1][2].answer) = Knn
    /\ queries[1][2].answer[1][1] = queries[1][2].answer[2][1]

(* C19: the too-big test comes first: a validated image with a dimension    *)
(* above 1000 is answered IMAGE_SIZE_TOO_BIG whatever the other dimension,  *)
(* and IMAGE_SIZE_TOO_SMALL is sent exactly when both dimensions are at     *)
(* most 1000 and at least one is below 200.                                 *)
C19_TooBigFirst ==
    \A t \in Threads :
        Has(t, "validate") =>
            LET w == img[t].w
                h == img[t].h
            IN  /\ (w > MaxImageSize \/ h > MaxImageSize) =>
                      Replied(t, IMAGE_SIZE_TOO_BIG)
                /\ Replied(t, IMAGE_SIZE_TOO_SMALL) <=>
                      /\ w <= MaxImageSize /\ h <= MaxImageSize
                      /\ w < MinImageSize \/ h < MinImageSize

(* One dimension above 1000, the other below 200. *)
C19_Witness ==
    /\ pc[1] = "done" /\ img[1].w = 199 /\ img[1].h = 1001
    /\ Replied(1, IMAGE_SIZE_TOO_BIG)

(* The stage an operation of the trace belongs to. *)
StageRank(what) ==
    CASE what = "decode" -> 1
      [] what = "validate" -> 2
      [] what = "detect" -> 3
      [] what = "open" -> 4
      [] what \in {"query", "writeHit"} -> 5
      [] what = "close" -> 6

(* C18: the operations of a request come in the order decode, validate,     *)
(* detect, open, queries and writes, close, each stage but the fifth at     *)
(* most once; the open comes after decode, validate and detect; and on      *)
(* every path with an open (success, open failure, write failure) the       *)
(* reply is sent with the stream closed, the close being the last           *)
(* operation before it, while no reply exists as long as the stream is open.*)
C18_StagesInOrder ==
    \A t \in Threads :
        /\ \A k \in 1..(Len(log[t]) - 1) :
              /\ StageRank(log[t][k][1]) <= StageRank(log[t][k + 1][1])
              /\ StageRank(log[t][k][1]) = StageRank(log[t][k + 1][1]) =>
                    StageRank(log[t][k][1]) = 5
        /\ Has(t, "open") =>
              /\ Len(log[t]) >= 4
              /\ log[t][1][1] = "decode" /\ log[t][2][1] = "validate"
              /\ log[t][3][1] = "detect" /\ log[t][4][1] = "open"
        /\ ofs[t].open => replies[t] = << >> /\ Has(t, "open") /\ ~Has(t, "close")
        /\ (Has(t, "open") /\ replies[t] # << >>) =>
              /\ ~ofs[t].open
              /\ log[t][Len(log[t])][1] = "close"

(* The write-failure path: writeHit finds the stream bad, the stream is     *)
(* closed, ERROR_GENERIC is sent.                                           *)
C18_Witness ==
    /\ pc[1] = "done" /\ Replied(1, ERROR_GENERIC) /\ ~ofs[1].open
    /\ Len(log[1]) >= 7
    /\ log[1][Len(log[1]) - 1] = <<"writeHit", -1>>
    /\ log[1][Len(log[1])] = <<"close", 0>>

(* The wordId field of complete record c of a hit file is a row of the      *)
(* vocabulary: its fourth byte is 0 and the other three read below N.       *)
WordIdInRange(bytes, c) ==
    LET b == SubSeq(bytes, 14 * (c - 1) + 1, 14 * (c - 1) + 4)
    IN  b[4] = 0 /\ b[1] + 256 * b[2] + 65536 * b[3] < VocabularySize

(* C15: every hit record in a hit file has a wordId in [0, N), for every    *)
(* answer the index may give, an answer with fewer than 4 neighbours        *)
(* included.                                                                *)
C15_WordIdIsVocabularyRow ==
    \A p \in HitPaths :
        \A c \in 1..(Len(files[p].bytes) \div 14) :
            WordIdInRange(files[p].bytes, c)

(* The rows of a file: its delimited records in order, then the last        *)
(* record when it is complete.                                              *)
CompleteRows(f) ==
    [k \in 1..Len(f.recs) |-> RecordBytes(f.recs[k])]
    \o (IF f.tail \in {"complete", "completeCR"} THEN <<RecordBytes(LastRecord)>>
                                                 ELSE << >>)

(* C16: on an openable file readVisualWords returns true with one row per   *)
(* complete 128-float record, in file order; after each record but the      *)
(* last the stream stands just after the newline that ends its delimiter;   *)
(* a partial final record adds no row, a complete final record without a    *)
(* newline after it is the last row, and neither is an error.               *)
C16_OneRowPerCompleteRecord ==
    /\ (reader.pc = "loop" /\ reader.good) =>
          /\ reader.pos = Len(reader.rows) * (RowBytes + Len(vocIn.delim))
          /\ reader.rows = SubSeq(CompleteRows(vocIn), 1, Len(reader.rows))
          /\ Len(reader.rows) <= Len(vocIn.recs)
    /\ (reader.pc = "returned" /\ vocIn.openable) =>
          /\ reader.ret = "true"
          /\ reader.rows = CompleteRows(vocIn)
    /\ reader.ret # "none" <=> reader.pc = "returned"

(* Two records, then 511 bytes of a third. *)
C16_Witness ==
    /\ reader.pc = "returned" /\ reader.ret = "true"
    /\ Len(vocIn.recs) = 2 /\ vocIn.tail = "partial511"
    /\ Len(reader.rows) = 2

(* C11: init() succeeds only with a vocabulary of exactly N rows: with an   *)
(* openable file of N records it loads N rows and the index; with an        *)
(* unopenable file or any other number of records the process ends, the     *)
(* index is never loaded and no request is ever processed.                  *)
C11_ReadyOnlyWithFullVocabulary ==
    /\ (vocFile.openable /\ vocFile.records = VocabularySize /\ module # "constructed") =>
          /\ module \in {"ready", "stopped"}
          /\ module = "ready" => words = VocabularySize
    /\ (~vocFile.openable \/ vocFile.records # VocabularySize) =>
          /\ module \in {"constructed", "exited"}
          /\ \A t \in Threads : pc[t] = "idle"

(* The open of request t succeeded / failed. *)
Opened(t) == \E k \in 1..Len(log[t]) : log[t][k] = <<"open", 1>>
OpenFailed(t) == \E k \in 1..Len(log[t]) : log[t][k] = <<"open", 0>>

(* All records of request t: the file of a request that wrote every hit. *)
AllHits(t) == [exists |-> TRUE, bytes |-> Records(t, Knn * Len(keypoints[t]))]

(* C13: when two requests with the same image id run one after the other    *)
(* and the second is answered OK, the hit file then holds exactly the hits  *)
(* of the second request and nothing of the first, whatever their numbers   *)
(* of keypoints.                                                            *)
C13_ReprocessingOverwrites ==
    (/\ pc[1] = "done" /\ pc[2] = "done"
     /\ imageId[1] = imageId[2]
     /\ Replied(2, OK)) =>
        files[HitFilePath(imageId[2])] = AllHits(2)

(* The hit file of the id of request t as it was when t was called, in the  *)
(* runs of SpecSeq: absent, or what request 1 left under the same id.       *)
FileBefore(t) ==
    IF t = 2 /\ imageId[1] = imageId[2] /\ Opened(1)
    THEN [exists |-> TRUE, bytes |-> Records(1, HitsDone(1))]
    ELSE NoFile

(* C14, as amended: a request whose open of the hit file fails is answered  *)
(* ERROR_GENERIC, runs no query and no writeHit, and leaves the hit file    *)
(* of its image id as it was when the request was called: absent if it was  *)
(* absent, and the file of an earlier request for the same id unchanged     *)
(* (until a later request for that id opens it).                            *)
C14_OpenFailureLeavesFile ==
    \A t \in Threads :
        OpenFailed(t) =>
            /\ pc[t] = "done"
            /\ Replied(t, ERROR_GENERIC) /\ ret[t] = "false"
            /\ queries[t] = << >>
            /\ ~Has(t, "query") /\ ~Has(t, "writeHit")
            /\ ~ofs[t].open
            /\ \/ files[HitFilePath(imageId[t])] = FileBefore(t)
               \/ t = 1 /\ imageId[2] = imageId[1] /\ Opened(2)

(* The second request fails to open the file that the first one completed. *)
C14_Witness ==
    /\ pc[2] = "done" /\ OpenFailed(2) /\ Replied(2, ERROR_GENERIC)
    /\ imageId[1] = imageId[2] /\ Replied(1, OK) /\ Len(keypoints[1]) = 2
    /\ files[HitFilePath(imageId[2])] = AllHits(1)

(* C14 as stated: after a request whose open failed (and before a later    *)
(* request opens the file) there is no completed hit file for its image id, *)
(* a file holding all hits of a request answered OK.                        *)
C14_Original ==
    \A t \in Threads :
        OpenFailed(t) =>
            /\ Replied(t, ERROR_GENERIC)
            /\ queries[t] = << >> /\ ~Has(t, "writeHit")
            /\ \/ t = 1 /\ imageId[2] = imageId[1] /\ Opened(2)
               \/ ~\E u \in Threads :
                       /\ imageId[u] = imageId[t] /\ Replied(u, OK)
                       /\ files[HitFilePath(imageId[t])] = AllHits(u)

(* Bytes of a record after done of its five fields were written. *)
FieldEnd(done) == <<0, 4, 8, 10, 12, 14>>[done + 1]

(* What request t on its own has put into its file: every record it wrote   *)
(* in full and the written fields of the one whose write failed.            *)
WrittenBy(t) ==
    LET w == SelectSeq(log[t], LAMBDA e : e[1] = "writeHit" /\ e[2] >= 0)
    IN  Concat([k \in 1..((Len(w) + Knn - 1) \div Knn) |->
            LET fx   == Encode(keypoints[t][k], img[t].w, img[t].h)
                tail == Bytes(imageId[t], 4) \o Bytes(fx.angle, 2)
                        \o Bytes(fx.x, 2) \o Bytes(fx.y, 2)
                last == IF Len(w) < Knn * k THEN Len(w) - Knn * (k - 1) ELSE Knn
            IN  Concat([n \in 1..last |->
                    SubSeq(Bytes(queries[t][k].indices[n], 4) \o tail,
                           1, FieldEnd(w[Knn * (k - 1) + n][2]))])])

(* The reply of request t run alone, from its own image and its own stream. *)
ReplyAlone(t) ==
    IF ~img[t].data THEN IMAGE_NOT_DECODED
    ELSE IF SizeCheck(img[t].w, img[t].h) # "pass" THEN SizeCheck(img[t].w, img[t].h)
    ELSE IF OpenFailed(t) \/ (\E k \in 1..Len(log[t]) : log[t][k] = <<"writeHit", -1>>)
         THEN ERROR_GENERIC
    ELSE OK

(* C17: concurrent requests with different image ids do not interfere: the  *)
(* vocabulary and the index stay as init() left them, different ids give    *)
(* different file paths, and in every interleaving the file of a request    *)
(* holds what that request itself wrote (or is absent if it opened none),   *)
(* and its reply is the reply of the same request run alone.                *)
C17_DistinctIdsIndependent ==
    /\ (\E t \in Threads : pc[t] # "idle") =>
          module = "ready" /\ words = VocabularySize
    /\ \A a, b \in ImageIds : a # b => HitFilePath(a) # HitFilePath(b)
    /\ \A t \in Threads :
          pc[t] # "idle" =>
              /\ files[HitFilePath(imageId[t])] =
                    IF Opened(t) THEN [exists |-> TRUE, bytes |-> WrittenBy(t)]
                                 ELSE NoFile
              /\ pc[t] = "done" => Replied(t, ReplyAlone(t))

(* Both requests have written to their files, in turns. *)
C17_Witness ==
    /\ pc[1] = "done" /\ pc[2] = "done"
    /\ Replied(1, OK) /\ Replied(2, ERROR_GENERIC)
    /\ Len(keypoints[1]) = 2 /\ WriteFailed(2)
    /\ Len(files[HitFilePath(imageId[1])].bytes) = 14 * Knn * 2
    /\ Len(files[HitFilePath(imageId[2])].bytes) > 14

(* C12: teardown is safe against requests in flight: the vocabulary and     *)
(* the index are not released while a request is inside a nearest-neighbour *)
(* query, and no request is inside a query on a released index.             *)
C12_TeardownSafe ==
    \A t \in Threads : pc[t] \in {"knn", "crashed"} => module = "ready"

====
